---- MODULE Spec2Model ----
(***************************************************************************)
(* Verification step of scripts/convert_minilm_to_coreml.py (step [4/4] of *)
(* main): the reference embeddings, the per-sentence loop that tokenizes,  *)
(* runs the converted model, mean-pools and L2-normalises its output,      *)
(* compares it with the reference by cosine similarity and prints a        *)
(* status, and the try/except around that loop.                            *)
(*                                                                         *)
(* Numbers.  The script computes in floating point.  The model computes in *)
(* exact arithmetic over the numbers (n/d) * sqrt(r) * 10^(-e), n, d, e    *)
(* integers and r a squarefree positive integer, which is closed under the *)
(* operations the script applies to small integer inputs (sum, product,    *)
(* quotient, square root of a sum of squares).  d = 0 encodes the IEEE     *)
(* results of a division by zero: 0/0 is NaN, x/0 is an infinity.          *)
(***************************************************************************)
EXTENDS Integers, Sequences, FiniteSets

(***************************************************************************)
(* Bounds of the model.                                                    *)
(***************************************************************************)
\* Sequence length of a token batch (MAX_SEQ_LENGTH is 256 in the script).
SeqLen == 2
\* Embedding vectors of the model live in the plane (EMBEDDING_DIM is 384).
Dims == {1, 2}
\* Decimal scales of a token-embedding matrix: entries k * 10^(-e).
Scales == {0, 10}

\* len(test_sentences)
NumSentences == 3

(***************************************************************************)
(* Exact arithmetic.                                                       *)
(***************************************************************************)
RECURSIVE GCD(_, _)
GCD(a, b) == IF b = 0 THEN a ELSE GCD(b, a % b)

AbsInt(a) == IF a < 0 THEN -a ELSE a

RECURSIVE Pow10(_)
Pow10(k) == IF k = 0 THEN 1 ELSE 10 * Pow10(k - 1)

\* The largest s with s*s dividing m (m >= 1), searched upward from s.
RECURSIVE SquarePartFrom(_, _, _)
SquarePartFrom(m, s, best) ==
    IF s * s > m THEN best
    ELSE SquarePartFrom(m, s + 1, IF m % (s * s) = 0 THEN s ELSE best)

SquarePart(m) == SquarePartFrom(m, 1, 1)

Zero == [n |-> 0, d |-> 1, r |-> 1, e |-> 0]
One == [n |-> 1, d |-> 1, r |-> 1, e |-> 0]
NaN == [n |-> 0, d |-> 0, r |-> 1, e |-> 0]
Inf(s) == [n |-> s, d |-> 0, r |-> 1, e |-> 0]

IsNaN(x) == x.d = 0 /\ x.n = 0
IsInf(x) == x.d = 0 /\ x.n # 0
IsFinite(x) == x.d # 0
Sign(x) == IF x.n > 0 THEN 1 ELSE IF x.n < 0 THEN -1 ELSE 0

\* (n/d) * sqrt(r) * 10^(-e) in lowest terms, d > 0, r squarefree.
Canon(n, d, r, e) ==
    IF n = 0 THEN Zero
    ELSE LET g == GCD(AbsInt(n), AbsInt(d))
             s == IF d < 0 THEN -1 ELSE 1
         IN [n |-> s * (n \div g), d |-> s * (d \div g), r |-> r, e |-> e]

Int2Num(k) == Canon(k, 1, 1, 0)
Rat(n, d) == Canon(n, d, 1, 0)

Neg(x) == [x EXCEPT !.n = -x.n]

Mul(x, y) ==
    IF IsNaN(x) \/ IsNaN(y) THEN NaN
    ELSE IF IsInf(x) \/ IsInf(y)
         THEN (IF Sign(x) * Sign(y) = 0 THEN NaN ELSE Inf(Sign(x) * Sign(y)))
    ELSE LET g == GCD(x.r, y.r)
         IN Canon(x.n * y.n * g, x.d * y.d, (x.r \div g) * (y.r \div g), x.e + y.e)

\* 1 / ((n/d) sqrt(r) 10^(-e)) = (d / (n r)) sqrt(r) 10^e, for finite nonzero x.
Inverse(x) == Canon(x.d, x.n * x.r, x.r, -x.e)

Div(x, y) ==
    IF IsNaN(x) \/ IsNaN(y) THEN NaN
    ELSE IF IsInf(y) THEN (IF IsInf(x) THEN NaN ELSE Zero)
    ELSE IF IsInf(x) THEN Inf(Sign(x) * (IF Sign(y) < 0 THEN -1 ELSE 1))
    ELSE IF Sign(y) = 0 THEN (IF Sign(x) = 0 THEN NaN ELSE Inf(Sign(x)))
    ELSE Mul(x, Inverse(y))

\* Sum of two numbers with the same radical (no other sum is representable).
Add(x, y) ==
    IF IsNaN(x) \/ IsNaN(y) THEN NaN
    ELSE IF IsInf(x) THEN (IF IsInf(y) /\ Sign(y) # Sign(x) THEN NaN ELSE x)
    ELSE IF IsInf(y) THEN y
    ELSE IF Sign(x) = 0 THEN y
    ELSE IF Sign(y) = 0 THEN x
    ELSE LET e == IF x.e > y.e THEN x.e ELSE y.e
             xn == x.n * Pow10(e - x.e)
             yn == y.n * Pow10(e - y.e)
             r == CHOOSE q \in {x.r} : q = y.r
         IN Canon(xn * y.d + yn * x.d, x.d * y.d, r, e)

\* Square root of a non-negative rational times an even power of ten.
Sqrt(x) ==
    IF IsNaN(x) \/ Sign(x) < 0 THEN NaN
    ELSE IF IsInf(x) THEN x
    ELSE IF Sign(x) = 0 THEN Zero
    ELSE LET m == x.n * x.d
             s == SquarePart(m)
             h == CHOOSE k \in {x.e \div 2} : 2 * k = x.e /\ x.r = 1
         IN Canon(s, x.d, m \div (s * s), h)

\* x < y for positive finite x, y, by their squares.
MagLess(x, y) ==
    LET L == x.n * x.n * x.r * y.d * y.d
        R == y.n * y.n * y.r * x.d * x.d
        k == 2 * (y.e - x.e)
    IN IF k >= 10 THEN FALSE
       ELSE IF k <= -10 THEN TRUE
       ELSE IF k >= 0 THEN L * Pow10(k) < R
       ELSE L < R * Pow10(-k)

\* The IEEE comparison x < y: false when either side is NaN.
Less(x, y) ==
    IF IsNaN(x) \/ IsNaN(y) THEN FALSE
    ELSE IF Sign(x) # Sign(y) THEN Sign(x) < Sign(y)
    ELSE IF Sign(x) = 0 THEN FALSE
    ELSE IF IsInf(x) \/ IsInf(y)
         THEN (IF Sign(x) > 0 THEN ~IsInf(x) /\ IsInf(y) ELSE IsInf(x) /\ ~IsInf(y))
    ELSE IF Sign(x) > 0 THEN MagLess(x, y)
    ELSE MagLess(Neg(y), Neg(x))

(***************************************************************************)
(* numpy on vectors (sequences of numbers) and matrices (sequences of rows).*)
(***************************************************************************)
RECURSIVE SumTo(_, _)
SumTo(v, k) == IF k = 0 THEN Zero ELSE Add(SumTo(v, k - 1), v[k])

\* np.sum of a vector
NpSum(v) == SumTo(v, Len(v))

\* np.dot of two vectors
NpDot(u, v) == NpSum([d \in DOMAIN u |-> Mul(u[d], v[d])])

\* np.linalg.norm of a vector
NpNorm(v) == Sqrt(NpSum([d \in DOMAIN v |-> Mul(v[d], v[d])]))

\* Python's max(a, b): b when b > a, else a
PyMax(a, b) == IF Less(a, b) THEN b ELSE a

\* The literal 1e-9
Eps == [n |-> 1, d |-> 1, r |-> 1, e |-> 9]

\* Mutant of MaskedSum: the sum over every position, the mask left out
MaskedSumAll(E, m) ==
    [d \in Dims |-> NpSum([t \in DOMAIN E |-> E[t][d]])]

\* np.sum(last_hidden_state[0] * mask_expanded, axis=0)
MaskedSum(E, m) ==
    [d \in Dims |-> NpSum([t \in DOMAIN E |-> Mul(E[t][d], Int2Num(m[t]))])]

\* Mutant of ClampedCount: sum_mask without the 1e-9 floor
UnclampedCount(m) == NpSum([t \in DOMAIN m |-> Int2Num(m[t])])

\* sum_embeddings / max(sum_mask, 1e-9), with sum_mask = np.sum(mask)
ClampedCount(m) == PyMax(NpSum([t \in DOMAIN m |-> Int2Num(m[t])]), Eps)

MeanPooling(E, m) ==
    LET sum_embeddings == MaskedSum(E, m)
    IN [d \in Dims |-> Div(sum_embeddings[d], ClampedCount(m))]

\* max(norm, 1e-9), with norm = np.linalg.norm(mean_embedding)
ClampedNorm(v) == PyMax(NpNorm(v), Eps)

\* Mutant of L2Normalize: the pooled vector returned as it is
L2NormalizeSkipped(v) == [d \in Dims |-> v[d]]

\* mean_embedding / max(norm, 1e-9)
L2Normalize(v) == [d \in Dims |-> Div(v[d], ClampedNorm(v))]

\* np.dot(ref, emb) / (np.linalg.norm(ref) * np.linalg.norm(emb))
CosineSimilarity(ref, emb) == Div(NpDot(ref, emb), Mul(NpNorm(ref), NpNorm(emb)))

\* The literals 0.99 and 0.95
OkCut == Rat(99, 100)
WarnCut == Rat(95, 100)

\* Mutant of Classify: the cuts taken inclusively (>= for >)
ClassifyInclusive(sim) ==
    IF ~Less(sim, OkCut) /\ ~IsNaN(sim) THEN "OK"
    ELSE IF ~Less(sim, WarnCut) /\ ~IsNaN(sim) THEN "WARN" ELSE "FAIL"

\* "OK" if cos_sim > 0.99 else ("WARN" if cos_sim > 0.95 else "FAIL")
Classify(sim) ==
    IF Less(OkCut, sim) THEN "OK" ELSE IF Less(WarnCut, sim) THEN "WARN" ELSE "FAIL"

(***************************************************************************)
(* Inputs: what the tokenizer, the converted model and the reference model *)
(* may return.                                                             *)
(***************************************************************************)
\* Token-embedding entries are these integers times a scale 10^(-e)
Vals == {-1, 0, 1}

ZeroVec == [d \in Dims |-> Zero]

\* Every 0/1 attention mask of the batch length
Masks == [1..SeqLen -> {0, 1}]

\* padding="max_length": real tokens first ([CLS] always), then padding
TokenizerMasks ==
    {m \in Masks : m[1] = 1 /\ \A t \in 1..(SeqLen - 1) : m[t] = 0 => m[t + 1] = 0}

\* last_hidden_state[0]: one vector of finite values per position
TokenEmbeddingMatrices(scales) ==
    {[t \in 1..SeqLen |-> [d \in Dims |-> Canon(k[t][d], 1, 1, e)]] :
        k \in [1..SeqLen -> [Dims -> Vals]], e \in scales}

\* Rows of model.encode(..., normalize_embeddings=True): unit vectors
RefEmbeddings == {<<One, Zero>>, <<Rat(3, 5), Rat(4, 5)>>}

\* A local name not yet bound
NoVec == <<>>
NoNum == [n |-> 0, d |-> 0, r |-> 0, e |-> 0]

\* Denominator of the grid of similarities k / SimDen that Classify is tried on
SimDen == 100
SimGrid == {Rat(k, SimDen) : k \in (-SimDen)..SimDen}

(***************************************************************************)
(* State of main() from "[4/4] Verifying..." on.                           *)
(***************************************************************************)
VARIABLES
    pc,                 \* the statement main() is at
    i,                  \* 1-based number of the sentence the loop is on
    st_embeddings,      \* reference embeddings, one row per test sentence
    mask,               \* encoded["attention_mask"][0]
    last_hidden_state,  \* coreml_output["last_hidden_state"][0]
    mean_embedding,
    coreml_emb,
    cos_sim,
    status,
    report,             \* the "Sentence k similarity: ... [status]" lines printed
    raisedAt,           \* sentence during which an exception was raised, 0: none
    success             \* "SUCCESS: CoreML conversion verified!" was printed

vars == <<pc, i, st_embeddings, mask, last_hidden_state, mean_embedding,
          coreml_emb, cos_sim, status, report, raisedAt, success>>

locals == <<mask, last_hidden_state, mean_embedding, coreml_emb, cos_sim, status>>

Init ==
    /\ pc = "encode"
    /\ i = 0
    /\ st_embeddings = <<>>
    /\ mask = NoVec
    /\ last_hidden_state = NoVec
    /\ mean_embedding = NoVec
    /\ coreml_emb = NoVec
    /\ cos_sim = NoNum
    /\ status = ""
    /\ report = <<>>
    /\ raisedAt = 0
    /\ success = FALSE

\* st_embeddings = model.encode(test_sentences, normalize_embeddings=True)
Encode ==
    /\ pc = "encode"
    /\ st_embeddings' \in [1..NumSentences -> RefEmbeddings]
    /\ pc' = "for"
    /\ UNCHANGED <<i, locals, report, raisedAt, success>>

\* for i, sent in enumerate(test_sentences): the next sentence
ForNext ==
    /\ pc = "for"
    /\ i < NumSentences
    /\ i' = i + 1
    /\ pc' = "tokenize"
    /\ UNCHANGED <<st_embeddings, locals, report, raisedAt, success>>

\* the loop is exhausted
ForExit ==
    /\ pc = "for"
    /\ i >= NumSentences
    /\ pc' = "success"
    /\ UNCHANGED <<i, st_embeddings, locals, report, raisedAt, success>>

\* encoded = tokenizer(sent, padding="max_length", ...)
Tokenize ==
    /\ pc = "tokenize"
    /\ mask' \in TokenizerMasks
    /\ pc' = "predict"
    /\ UNCHANGED <<i, st_embeddings, last_hidden_state, mean_embedding,
                   coreml_emb, cos_sim, status, report, raisedAt, success>>

\* coreml_output = mlmodel.predict(coreml_input); last_hidden_state = ...
Predict ==
    /\ pc = "predict"
    /\ last_hidden_state' \in TokenEmbeddingMatrices({0})
    /\ pc' = "pool"
    /\ UNCHANGED <<i, st_embeddings, mask, mean_embedding, coreml_emb, cos_sim,
                   status, report, raisedAt, success>>

\* mlmodel.predict raises, or its output has no "last_hidden_state"
PredictRaises ==
    /\ pc = "predict"
    /\ raisedAt' = i
    /\ pc' = "except"
    /\ UNCHANGED <<i, st_embeddings, locals, report, success>>

\* # Mean pooling
Pool ==
    /\ pc = "pool"
    /\ mean_embedding' = MeanPooling(last_hidden_state, mask)
    /\ pc' = "normalize"
    /\ UNCHANGED <<i, st_embeddings, mask, last_hidden_state, coreml_emb, cos_sim,
                   status, report, raisedAt, success>>

\* # L2 normalize
Normalize ==
    /\ pc = "normalize"
    /\ coreml_emb' = L2Normalize(mean_embedding)
    /\ pc' = "similarity"
    /\ UNCHANGED <<i, st_embeddings, mask, last_hidden_state, mean_embedding,
                   cos_sim, status, report, raisedAt, success>>

\* # Cosine similarity
Similarity ==
    /\ pc = "similarity"
    /\ i \in DOMAIN st_embeddings
    /\ cos_sim' = CosineSimilarity(st_embeddings[i], coreml_emb)
    /\ pc' = "classify"
    /\ UNCHANGED <<i, st_embeddings, mask, last_hidden_state, mean_embedding,
                   coreml_emb, status, report, raisedAt, success>>

\* status = "OK" if cos_sim > 0.99 else ("WARN" if cos_sim > 0.95 else "FAIL")
ClassifyStatus ==
    /\ pc = "classify"
    /\ status' = Classify(cos_sim)
    /\ pc' = "print"
    /\ UNCHANGED <<i, st_embeddings, mask, last_hidden_state, mean_embedding,
                   coreml_emb, cos_sim, report, raisedAt, success>>

\* Mutant of PrintVerdict: the loop body ends without printing the line
PrintVerdictLost ==
    /\ pc = "print"
    /\ mask' = NoVec
    /\ last_hidden_state' = NoVec
    /\ mean_embedding' = NoVec
    /\ coreml_emb' = NoVec
    /\ cos_sim' = NoNum
    /\ status' = ""
    /\ pc' = "for"
    /\ UNCHANGED <<i, st_embeddings, report, raisedAt, success>>

\* print(f"  Sentence {i+1} similarity: {cos_sim:.4f} [{status}]")
\* This ends the loop body.  The values it leaves in the body's names are dead
\* (each name is assigned again before it is read), so the model drops them.
PrintVerdict ==
    /\ pc = "print"
    /\ report' = Append(report, [sent |-> i, status |-> status])
    /\ mask' = NoVec
    /\ last_hidden_state' = NoVec
    /\ mean_embedding' = NoVec
    /\ coreml_emb' = NoVec
    /\ cos_sim' = NoNum
    /\ status' = ""
    /\ pc' = "for"
    /\ UNCHANGED <<i, st_embeddings, raisedAt, success>>

\* Mutant of Success: the line printed only when every status is OK
SuccessIfAllOk ==
    /\ pc = "success"
    /\ success' = (\A j \in DOMAIN report : report[j].status = "OK")
    /\ pc' = "complete"
    /\ UNCHANGED <<i, st_embeddings, locals, report, raisedAt>>

\* print("\n  SUCCESS: CoreML conversion verified!")
Success ==
    /\ pc = "success"
    /\ success' = TRUE
    /\ pc' = "complete"
    /\ UNCHANGED <<i, st_embeddings, locals, report, raisedAt>>

\* Mutant of Except: the handler inside the loop, which goes on to the next
\* sentence
ExceptResume ==
    /\ pc = "except"
    /\ pc' = "for"
    /\ UNCHANGED <<i, st_embeddings, locals, report, raisedAt, success>>

\* except Exception as e: print the error and the traceback, and go on
Except ==
    /\ pc = "except"
    /\ pc' = "complete"
    /\ UNCHANGED <<i, st_embeddings, locals, report, raisedAt, success>>

\* print("Conversion complete!") and the list of files
Complete ==
    /\ pc = "complete"
    /\ pc' = "done"
    /\ UNCHANGED <<i, st_embeddings, locals, report, raisedAt, success>>

Next ==
    \/ Encode
    \/ ForNext
    \/ ForExit
    \/ Tokenize
    \/ Predict
    \/ PredictRaises
    \/ Pool
    \/ Normalize
    \/ Similarity
    \/ ClassifyStatus
    \/ PrintVerdict
    \/ Success
    \/ Except
    \/ Complete

Spec == Init /\ [][Next]_vars

(***************************************************************************)
(* The mean pooling and the L2 normalisation on their own, over every      *)
(* attention mask (the all-zero one included) and every matrix: the code   *)
(* of Pool and Normalize, started from an arbitrary input.  The matrix     *)
(* starts with zeros at the padded positions, and Repad then overwrites    *)
(* padded entries with arbitrary values and reduces again.                 *)
(***************************************************************************)
PaddedAreZero(E, m) == \A t \in DOMAIN E : m[t] = 0 => E[t] = ZeroVec

ReducerInit ==
    /\ pc = "pool"
    /\ i = 0
    /\ st_embeddings = <<>>
    /\ mask \in Masks
    /\ last_hidden_state \in
           {E \in TokenEmbeddingMatrices(Scales) : PaddedAreZero(E, mask)}
    /\ mean_embedding = NoVec
    /\ coreml_emb = NoVec
    /\ cos_sim = NoNum
    /\ status = ""
    /\ report = <<>>
    /\ raisedAt = 0
    /\ success = FALSE

\* Another output of the network at one padded position, reduced again
Repad ==
    /\ pc = "similarity"
    /\ \E t \in 1..SeqLen, d \in Dims, k \in Vals :
          /\ mask[t] = 0
          /\ last_hidden_state' = [last_hidden_state EXCEPT ![t][d] = Int2Num(k)]
    /\ mean_embedding' = MeanPooling(last_hidden_state', mask)
    /\ coreml_emb' = L2Normalize(mean_embedding')
    /\ UNCHANGED <<pc, i, st_embeddings, mask, cos_sim, status, report,
                   raisedAt, success>>

ReducerNext ==
    \/ Pool
    \/ Normalize
    \/ Repad

ReducerSpec == ReducerInit /\ [][ReducerNext]_vars

(***************************************************************************)
(* The classification on its own, over a grid of similarities in [-1, 1].  *)
(***************************************************************************)
ClassifyInit ==
    /\ pc = "classify"
    /\ i = 1
    /\ st_embeddings = <<>>
    /\ mask = NoVec
    /\ last_hidden_state = NoVec
    /\ mean_embedding = NoVec
    /\ coreml_emb = NoVec
    /\ cos_sim \in SimGrid
    /\ status = ""
    /\ report = <<>>
    /\ raisedAt = 0
    /\ success = FALSE

ClassifyNext ==
    \/ ClassifyStatus
    \/ PrintVerdict

ClassifySpec == ClassifyInit /\ [][ClassifyNext]_vars

(***************************************************************************)
(* Properties.                                                             *)
(***************************************************************************)
Sentences == 1..NumSentences

\* The lines of the report that are about sentence k
Reported(k) == {j \in DOMAIN report : report[j].sent = k}

\* The per-sentence state of the verifier's state machine, read off main()'s
\* state: the verdict is issued when its line is printed, the candidate is
\* unavailable when the exception was raised on that sentence, computed once
\* coreml_emb is assigned, and the reference is computed by model.encode.
Phase(k) ==
    IF Reported(k) # {} THEN "VERDICT_ISSUED"
    ELSE IF raisedAt = k THEN "CANDIDATE_UNAVAILABLE"
    ELSE IF i = k /\ pc \in {"similarity", "classify", "print"}
         THEN "CANDIDATE_COMPUTED"
    ELSE IF k \in DOMAIN st_embeddings THEN "REFERENCE_COMPUTED"
    ELSE "PENDING"

PhaseSteps ==
    {<<"PENDING", "REFERENCE_COMPUTED">>,
     <<"REFERENCE_COMPUTED", "CANDIDATE_COMPUTED">>,
     <<"REFERENCE_COMPUTED", "CANDIDATE_UNAVAILABLE">>,
     <<"CANDIDATE_COMPUTED", "VERDICT_ISSUED">>,
     <<"CANDIDATE_UNAVAILABLE", "VERDICT_ISSUED">>}

\* Every sentence keeps its state or takes one step of the state machine
PhaseOrder ==
    \A k \in Sentences : Phase(k)' = Phase(k) \/ <<Phase(k), Phase(k)'>> \in PhaseSteps

HasSetBit(m) == \E t \in DOMAIN m : m[t] = 1
AllZero(m) == \A t \in DOMAIN m : m[t] = 0

\* C1: when main() has ended, the report holds exactly one verdict line for
\* each sentence of the batch, whichever sentences the candidate raised on.
C1_OneVerdictPerSentence ==
    pc = "done" => \A k \in Sentences : Cardinality(Reported(k)) = 1

\* C2: when main() has ended, the sentence the candidate raised on is reported
\* UNAVAILABLE and not OK, WARN or FAIL, and no sentence whose candidate was
\* computed is reported UNAVAILABLE.
C2_RaisedIsUnavailable ==
    pc = "done" =>
        \A k \in Sentences :
            /\ raisedAt = k =>
                  /\ \E j \in Reported(k) : report[j].status = "UNAVAILABLE"
                  /\ \A j \in Reported(k) : report[j].status \notin {"OK", "WARN", "FAIL"}
            /\ raisedAt # k =>
                  \A j \in Reported(k) : report[j].status # "UNAVAILABLE"

\* C3: for a similarity n/d in [-1, 1] the status is one of OK, WARN, FAIL,
\* OK exactly when n/d > 0.99, WARN exactly when 0.95 < n/d <= 0.99, FAIL
\* exactly when n/d <= 0.95 (the cuts compared in integers: 100 n against 99 d
\* and 95 d).
C3_ClassificationCuts ==
    pc = "print" =>
        /\ status \in {"OK", "WARN", "FAIL"}
        /\ status = "OK" <=> 100 * cos_sim.n > 99 * cos_sim.d
        /\ status = "WARN" <=>
              (100 * cos_sim.n > 95 * cos_sim.d /\ 100 * cos_sim.n <= 99 * cos_sim.d)
        /\ status = "FAIL" <=> 100 * cos_sim.n <= 95 * cos_sim.d

\* A similarity of exactly 0.99 has been classified, as WARN
C3_Witness == pc = "print" /\ cos_sim = OkCut /\ status = "WARN"

\* C4: overwriting the embedding at a padded position (mask 0), the mask and
\* the unpadded positions held fixed, and reducing again leaves the sentence
\* embedding as it was.
C4_PaddingIgnored ==
    [][(pc = "similarity" /\ pc' = "similarity") => coreml_emb' = coreml_emb]_vars

\* A padded position holds a non-zero vector (Repad has written it) beside a
\* real token, and the embedding is a non-zero vector
C4_Witness ==
    /\ pc = "similarity"
    /\ HasSetBit(mask)
    /\ \E t \in DOMAIN mask : mask[t] = 0 /\ last_hidden_state[t] # ZeroVec
    /\ coreml_emb # ZeroVec

\* C5: under an all-zero mask both divisors are the floor 1e-9, and the pooled
\* vector and the normalised vector are both exactly the zero vector (so
\* neither is NaN or an infinity), whatever the token embeddings are.
C5_ZeroMaskZeroVector ==
    AllZero(mask) =>
        /\ pc = "normalize" => mean_embedding = ZeroVec
        /\ pc = "similarity" =>
              /\ ClampedCount(mask) = Eps
              /\ ClampedNorm(mean_embedding) = Eps
              /\ mean_embedding = ZeroVec
              /\ coreml_emb = ZeroVec

\* The all-zero mask over a matrix with a non-zero entry has been reduced
C5_Witness ==
    /\ pc = "similarity"
    /\ AllZero(mask)
    /\ \E t \in DOMAIN mask : last_hidden_state[t] # ZeroVec
    /\ coreml_emb = ZeroVec

\* Within 1/100 of 1, which a number within 1e-9 of 1 is
RoughlyOne(x) == ~Less(x, Rat(99, 100)) /\ ~Less(Rat(101, 100), x) /\ ~IsNaN(x)

\* C6 as stated: whenever the mask has a set bit, the norm of the reducer's
\* output is within 1e-9 of 1 (checked in the weaker form: within 1/100).
C6_UnitNormWheneverBitSet ==
    (pc = "similarity" /\ HasSetBit(mask)) => RoughlyOne(NpNorm(coreml_emb))

\* C6 amended: when the mask has a set bit and the norm of the pooled vector
\* is at least 1e-9, the norm of the reducer's output is exactly 1 (hence
\* within 1e-9 of 1).
C6_UnitNormWhenPooledNormAtLeastEps ==
    (pc = "similarity" /\ HasSetBit(mask) /\ ~Less(NpNorm(mean_embedding), Eps))
        => NpNorm(coreml_emb) = One

\* An embedding with irrational coordinates has been normalised
C6_Witness ==
    /\ pc = "similarity"
    /\ HasSetBit(mask)
    /\ ~Less(NpNorm(mean_embedding), Eps)
    /\ \E d \in Dims : coreml_emb[d].r # 1

\* No processing step of sentence k+1 has begun before sentence k has its verdict
OneAtATime ==
    \A k \in Sentences :
        (k + 1 \in Sentences /\ Phase(k + 1) # "PENDING") => Phase(k) = "VERDICT_ISSUED"

\* C7 as stated: every sentence moves through PENDING, REFERENCE_COMPUTED,
\* CANDIDATE_COMPUTED or CANDIDATE_UNAVAILABLE, VERDICT_ISSUED in that order,
\* and no step of a sentence is taken before the sentence before it has its
\* verdict.
C7_EachSentenceFullyBeforeNext == [][PhaseOrder /\ OneAtATime']_vars

\* The loop is on sentence k+1, or has decided its candidate, only when
\* sentence k has its verdict
CandidateOneAtATime ==
    \A k \in Sentences :
        (k + 1 \in Sentences
            /\ (i > k \/ Phase(k + 1) \in {"CANDIDATE_COMPUTED",
                                           "CANDIDATE_UNAVAILABLE",
                                           "VERDICT_ISSUED"}))
        => Phase(k) = "VERDICT_ISSUED"

\* The references are computed for the whole batch at once
ReferencesTogether ==
    \A j, k \in Sentences : Phase(j) = "PENDING" <=> Phase(k) = "PENDING"

\* C7 amended: every sentence moves through the states in that order; the
\* references of all sentences are computed together, before the loop; from
\* then on the sentences are handled one at a time in input order: the loop
\* turns to a sentence only when the sentence before it has its verdict.
C7_ReferencesFirstThenOneAtATime ==
    [][PhaseOrder /\ CandidateOneAtATime' /\ ReferencesTogether']_vars

\* The second sentence's candidate is computed, the first has its verdict and
\* the third has only its reference
C7_Witness ==
    /\ Phase(1) = "VERDICT_ISSUED"
    /\ Phase(2) = "CANDIDATE_COMPUTED"
    /\ Phase(3) = "REFERENCE_COMPUTED"

\* dot(ref, cand) over the product of the norms, each floored at 1e-9
FlooredCosine(ref, emb) ==
    Div(NpDot(ref, emb), Mul(PyMax(NpNorm(ref), Eps), PyMax(NpNorm(emb), Eps)))

\* C8: the similarity the status is computed from is a defined number, the
\* quotient of the dot product by the norms floored at 1e-9, for a zero-vector
\* candidate too.
C8_SimilarityDefined ==
    pc = "classify" =>
        /\ IsFinite(cos_sim)
        /\ cos_sim = FlooredCosine(st_embeddings[i], coreml_emb)

\* The sentences with a verdict line are 1..n in input order, and none is at
\* or after the sentence the exception was raised on
ReportIsPrefix ==
    /\ \A j \in DOMAIN report : report[j].sent = j
    /\ raisedAt # 0 => \A j \in DOMAIN report : report[j].sent < raisedAt

\* After an exception main() is in the handler or at the final report, and has
\* a next step until that report is printed
OnTheWayToComplete ==
    raisedAt # 0 =>
        /\ pc \in {"except", "complete", "done"}
        /\ pc # "done" => ENABLED Next

\* After an exception a step prints no verdict and moves from the handler to
\* the final report, or prints it
TowardsComplete ==
    raisedAt # 0 =>
        /\ report' = report
        /\ <<pc, pc'>> \in {<<"except", "complete">>, <<"complete", "done">>}

\* C9: in every state the reported sentences are a prefix of the input in
\* input order; once the candidate has raised, no verdict is reported for that
\* sentence or a later one; and main() then goes on, step by step, to the
\* "Conversion complete!" report.
C9_PrefixThenComplete ==
    /\ [](ReportIsPrefix /\ OnTheWayToComplete)
    /\ [][TowardsComplete]_vars

\* The run has ended after an exception on the second sentence, with the
\* first sentence's verdict alone
C9_Witness == pc = "done" /\ raisedAt = 2 /\ Len(report) = 1 /\ ~success

\* C10: SUCCESS is printed only in a run without an exception, and a run that
\* has ended has printed it exactly when no exception was raised, whatever the
\* verdicts.
C10_SuccessIffNoException ==
    /\ success => raisedAt = 0
    /\ pc = "done" => (success <=> raisedAt = 0)

\* The run has ended with SUCCESS printed and a FAIL and a WARN among the
\* verdicts
C10_Witness ==
    /\ pc = "done"
    /\ success
    /\ \E j \in DOMAIN report : report[j].status = "FAIL"
    /\ \E j \in DOMAIN report : report[j].status = "WARN"

====
